---- MODULE Spec2Model ----
(***************************************************************************)
(* Model of package log (github.com/Syncbak-Git/log): a level-filtered     *)
(* logger.  A Log owns an output sink, a level mask and a timestamp        *)
(* function; the package-level functions act on the shared instance std.   *)
(*                                                                         *)
(* Strings are sequences of one-character strings, so that a log entry is  *)
(* the byte sequence the code hands to the sink.  A Level (uint64) is the  *)
(* set of its one-bit positions, 0..LevelBits-1.                           *)
(***************************************************************************)
EXTENDS Integers, Sequences, FiniteSets, TLC

VARIABLES logs, content, closed, opens, clock, proc, caller, calls, lastCall

vars == <<logs, content, closed, opens, clock, proc, caller, calls, lastCall>>

----------------------------------------------------------------------------
(* Bounds of the model. *)

\* calls an arbitrary caller makes on the package in one run
MaxCalls == 3
\* files SetOutputFile may open in one run
MaxOpens == 1

----------------------------------------------------------------------------
(* type Level uint64 and its constants. *)

LevelBits == 64

RECURSIVE Pow2(_)
Pow2(n) == IF n = 0 THEN 1 ELSE 2 * Pow2(n - 1)

\* The Level whose numeric value is n (n fits a positive 32-bit integer).
LevelOfInt(n) == {b \in 0..(LevelBits - 1) : b < 31 /\ (n \div Pow2(b)) % 2 = 1}

\* 1 << iota
Shl1(iota) == {b \in 0..(LevelBits - 1) : b = iota}

And(a, b) == a \cap b
Or(a, b) == a \cup b
Xor(a, b) == (a \ b) \cup (b \ a)

LevelDebug == Shl1(0)
LevelInfo == Shl1(1)
LevelWarning == Shl1(2)
LevelError == Shl1(3)
LevelFatal == Shl1(4)
LevelPanic == Shl1(5)
LevelCustom == Shl1(6)

\* variant: a sentinel covering only the four lowest bits
LevelAll_TooNarrow == LevelOfInt(15)

LevelAll == LevelOfInt(65535)

LevelNone == LevelOfInt(0)

----------------------------------------------------------------------------
(* Strings. *)

TAB == "\t"
NL == "\n"

RECURSIVE Concat(_)
\* the concatenation of a sequence of strings
Concat(ss) == IF ss = <<>> THEN <<>> ELSE Head(ss) \o Concat(Tail(ss))

S_DEBUG == <<"D", "E", "B", "U", "G">>
S_INFO == <<"I", "N", "F", "O">>
S_WARNING == <<"W", "A", "R", "N", "I", "N", "G">>
S_ERROR == <<"E", "R", "R", "O", "R">>
S_FATAL == <<"F", "A", "T", "A", "L">>
S_PANIC == <<"P", "A", "N", "I", "C">>
S_TEST == <<"T", "E", "S", "T">>

\* fmt.Sprintf(format, args...): format is a sequence of tokens, a token
\* being a literal character or the verb "%s"; args are strings.  A verb
\* without an operand prints %!s(MISSING), operands left over are reported
\* in a trailing %!(EXTRA string=..., string=...).
S_MISSING == <<"%", "!", "s", "(", "M", "I", "S", "S", "I", "N", "G", ")">>
S_EXTRA == <<"%", "!", "(", "E", "X", "T", "R", "A", " ">>
S_STRING_EQ == <<"s", "t", "r", "i", "n", "g", "=">>

RECURSIVE ExtraArgs(_)
ExtraArgs(args) ==
    IF args = <<>> THEN <<>>
    ELSE S_STRING_EQ \o Head(args)
         \o (IF Len(args) > 1 THEN <<",", " ">> ELSE <<>>)
         \o ExtraArgs(Tail(args))

RECURSIVE Sprintf(_, _)
Sprintf(format, args) ==
    IF format = <<>>
    THEN IF args = <<>> THEN <<>> ELSE S_EXTRA \o ExtraArgs(args) \o <<")">>
    ELSE IF Head(format) = "%s"
         THEN IF args = <<>>
              THEN S_MISSING \o Sprintf(Tail(format), args)
              ELSE Head(args) \o Sprintf(Tail(format), Tail(args))
         ELSE <<Head(format)>> \o Sprintf(Tail(format), args)

----------------------------------------------------------------------------
(* Sinks: the io.Writer values a Log can hold. *)

\* os.Stderr, the default output
Stderr == <<"stderr", 0>>
\* a caller-owned bytes.Buffer
Buf == <<"buf", 0>>
\* the i-th *os.File opened by SetOutputFile
FileSink(i) == <<"file", i>>

Sinks == {Stderr, Buf} \cup {FileSink(i) : i \in 1..MaxOpens}

\* the writers a caller hands to SetOutput
CallerSinks == {Stderr, Buf}

\* o, ok := l.output.(io.WriteCloser): *os.File has Close, bytes.Buffer has not
IsWriteCloser(w) == w[1] # "buf"

\* (*os.File).Close: nil the first time, an error once the file is closed
CloseResult(w) == IF closed[w] THEN "closed" ELSE "nil"

\* w.Write(p): what a sink may answer, as (bytes accepted, error).  A buffer
\* takes everything; a closed file takes nothing; the standard stream takes
\* everything; a file on disk takes everything or, the disk being full,
\* nothing or all but the last byte.
WriteOutcomes(w, p) ==
    IF ~IsWriteCloser(w) THEN {[n |-> Len(p), err |-> "nil"]}
    ELSE IF closed[w] THEN {[n |-> 0, err |-> "closed"]}
    ELSE IF w = Stderr THEN {[n |-> Len(p), err |-> "nil"]}
    ELSE {[n |-> Len(p), err |-> "nil"]}
         \cup {[n |-> k, err |-> "io"] : k \in {0, Len(p) - 1}}

\* os.OpenFile(f, O_CREATE|O_WRONLY|O_APPEND, 0644)
Paths == {"ok.log", "/no/such/dir/x.log"}
OpenFile(f) ==
    IF f = "ok.log" THEN [w |-> FileSink(opens + 1), err |-> "nil"]
    ELSE [w |-> Stderr, err |-> "openerr"]

----------------------------------------------------------------------------
(* Timestamp functions, formats and masks handed to the package. *)

Digits == <<"0", "1", "2", "3", "4", "5", "6", "7", "8", "9">>

\* time.Now().UTC().Format(time.RFC3339Nano) at the c-th reading of the clock
Now(c) == <<"t", Digits[(c % 10) + 1]>>

\* func() string values: the default, and fixed ones a caller installs
DefaultTimestamp == "now"
FixedTimestamps == {"A", "B"}

\* l.timestamp()
CallTimestamp(fn) == IF fn = DefaultTimestamp THEN Now(clock) ELSE <<"f", fn>>

Messages ==
    { [format |-> <<"h", "i">>, args |-> <<>>],
      [format |-> <<"%s", "!">>, args |-> << <<"w">> >>],
      [format |-> <<"h">>, args |-> << <<"x">> >>] }

CustomTags == {S_TEST, <<"X">>}

TestLogMask == Xor(Xor(LevelAll, LevelDebug), LevelFatal)

Masks == {LevelNone, LevelAll, TestLogMask, Or(LevelDebug, LevelError), Shl1(16)}

----------------------------------------------------------------------------
(* State. *)

std == "std"
Privs == {"priv"}
Insts == {std} \cup Privs

NoLog == [output |-> <<"none", 0>>, logLevel |-> {}, timestamp |-> "none"]

\* &Log{output: os.Stderr, logLevel: LevelAll, timestamp: func() ...}
NewLogValue ==
    [output |-> Stderr, logLevel |-> LevelAll, timestamp |-> DefaultTimestamp]

\* the private logs the caller holds
Created == {l \in Privs : logs[l] # NoLog}

Running == proc.state = "running"

\* the state a call starts in
Pre == [logs |-> logs, content |-> content, closed |-> closed,
        opens |-> opens, clock |-> clock]

\* the call made before this one
Prev == [inst |-> lastCall.inst, op |-> lastCall.op]

\* the record of a call op(arg) on l that wrote nothing and returned ret
Call(l, op, arg, ret) ==
    [inst |-> l, op |-> op, arg |-> arg, enabled |-> FALSE, ret |-> ret,
     sink |-> logs[l].output, tsCalls |-> 0, fmtCalls |-> 0, writeCalls |-> 0,
     closeCalls |-> 0, level |-> <<>>, p |-> <<>>, n |-> 0, err |-> "nil",
     pre |-> Pre, prev |-> Prev]

----------------------------------------------------------------------------
(* Callers.  "any" makes up to MaxCalls arbitrary calls.  "TestLog" is the  *)
(* test of that name: it makes the calls of its body, in order, on the      *)
(* global log, with its buffer as output.                                   *)

Callers == {"any", "TestLog"}

Step(op, any, arg) == [op |-> op, any |-> any, arg |-> arg]

TestLog ==
    << Step("SetOutput", FALSE, Buf),
       Step("SetLogLevel", FALSE, TestLogMask),
       Step("Debug", TRUE, <<>>),
       Step("Info", TRUE, <<>>),
       Step("Close", TRUE, <<>>),
       Step("Error", TRUE, <<>>),
       Step("Fatal", TRUE, <<>>),
       Step("Custom", FALSE, S_TEST),
       Step("Truncate", FALSE, Buf),
       Step("SetLogLevel", FALSE, LevelAll),
       Step("Panic", TRUE, <<>>),
       Step("recover", TRUE, <<>>) >>

\* whether the caller's next call may be op(arg) on log l
MayCall(l, op, arg) ==
    /\ Running
    /\ IF caller = "any" THEN calls < MaxCalls
       ELSE /\ l = std
            /\ calls < Len(TestLog)
            /\ TestLog[calls + 1].op = op
            /\ (TestLog[calls + 1].any \/ TestLog[calls + 1].arg = arg)

Init ==
    /\ logs = [l \in Insts |-> IF l = std THEN NewLogValue ELSE NoLog]
    /\ content = [w \in Sinks |-> <<>>]
    /\ closed = [w \in Sinks |-> FALSE]
    /\ opens = 0
    /\ clock = 0
    /\ proc = [state |-> "running", code |-> 0, payload |-> <<>>, recovered |-> FALSE]
    /\ caller \in Callers
    /\ calls = 0
    /\ lastCall =
         [inst |-> std, op |-> "init", arg |-> <<>>, enabled |-> FALSE, ret |-> "void",
          sink |-> Stderr, tsCalls |-> 0, fmtCalls |-> 0, writeCalls |-> 0,
          closeCalls |-> 0, level |-> <<>>, p |-> <<>>, n |-> 0, err |-> "nil",
          pre |-> [logs |-> logs, content |-> content, closed |-> closed,
                   opens |-> 0, clock |-> 0],
          prev |-> [inst |-> std, op |-> "init"]]

----------------------------------------------------------------------------
(* Configuration: methods of *Log. *)

\* func NewLog() *Log, the result assigned to the caller's variable l
NewLog(l) ==
    /\ MayCall(l, "NewLog", <<>>)
    /\ caller = "any"
    /\ logs' = [logs EXCEPT ![l] = NewLogValue]
    /\ lastCall' = [Call(l, "NewLog", <<>>, "void") EXCEPT !.sink = Stderr]
    /\ calls' = calls + 1
    /\ UNCHANGED <<content, closed, opens, clock, proc, caller>>

\* variant: the new mask is ORed into the old one
Log_SetLogLevel_Ors(l, ll) ==
    /\ MayCall(l, "SetLogLevel", ll)
    /\ logs' = [logs EXCEPT ![l].logLevel = Or(@, ll)]
    /\ lastCall' = Call(l, "SetLogLevel", ll, "void")
    /\ calls' = calls + 1
    /\ UNCHANGED <<content, closed, opens, clock, proc, caller>>

\* variant: the mask is one package-level variable shared by all logs
Log_SetLogLevel_Global(l, ll) ==
    /\ MayCall(l, "SetLogLevel", ll)
    /\ logs' = [k \in Insts |->
                  IF logs[k] = NoLog THEN NoLog ELSE [logs[k] EXCEPT !.logLevel = ll]]
    /\ lastCall' = Call(l, "SetLogLevel", ll, "void")
    /\ calls' = calls + 1
    /\ UNCHANGED <<content, closed, opens, clock, proc, caller>>

\* func (l *Log) SetLogLevel(ll Level)
Log_SetLogLevel(l, ll) ==
    /\ MayCall(l, "SetLogLevel", ll)
    /\ logs' = [logs EXCEPT ![l].logLevel = ll]
    /\ lastCall' = Call(l, "SetLogLevel", ll, "void")
    /\ calls' = calls + 1
    /\ UNCHANGED <<content, closed, opens, clock, proc, caller>>

\* func (l *Log) SetOutput(w io.Writer)
Log_SetOutput(l, w) ==
    /\ MayCall(l, "SetOutput", w)
    /\ logs' = [logs EXCEPT ![l].output = w]
    /\ lastCall' = Call(l, "SetOutput", w, "void")
    /\ calls' = calls + 1
    /\ UNCHANGED <<content, closed, opens, clock, proc, caller>>

\* variant: Close also replaces the closed sink
Log_Close_DropsOutput(l) ==
    LET w == logs[l].output IN
    /\ MayCall(l, "Close", <<>>)
    /\ IF IsWriteCloser(w)
       THEN /\ closed' = [closed EXCEPT ![w] = TRUE]
            /\ logs' = [logs EXCEPT ![l].output = Buf]
            /\ lastCall' = [Call(l, "Close", <<>>, CloseResult(w)) EXCEPT !.closeCalls = 1]
       ELSE /\ lastCall' = Call(l, "Close", <<>>, "nil")
            /\ UNCHANGED <<closed, logs>>
    /\ calls' = calls + 1
    /\ UNCHANGED <<content, opens, clock, proc, caller>>

\* func (l *Log) Close() error
Log_Close(l) ==
    LET w == logs[l].output IN
    /\ MayCall(l, "Close", <<>>)
    /\ IF IsWriteCloser(w)
       THEN /\ closed' = [closed EXCEPT ![w] = TRUE]
            /\ lastCall' = [Call(l, "Close", <<>>, CloseResult(w)) EXCEPT !.closeCalls = 1]
       ELSE /\ closed' = closed
            /\ lastCall' = Call(l, "Close", <<>>, "nil")
    /\ calls' = calls + 1
    /\ UNCHANGED <<logs, content, opens, clock, proc, caller>>

\* variant: the sink is replaced before the open error is looked at
Log_SetOutputFile_SetsAnyway(l, f) ==
    LET r == OpenFile(f) IN
    /\ MayCall(l, "SetOutputFile", f)
    /\ IF r.err # "nil"
       THEN /\ lastCall' = Call(l, "SetOutputFile", f, r.err)
            /\ logs' = [logs EXCEPT ![l].output = Buf]
            /\ UNCHANGED opens
       ELSE /\ opens < MaxOpens
            /\ opens' = opens + 1
            /\ logs' = [logs EXCEPT ![l].output = r.w]
            /\ lastCall' = Call(l, "SetOutputFile", f, "nil")
    /\ calls' = calls + 1
    /\ UNCHANGED <<content, closed, clock, proc, caller>>

\* func (l *Log) SetOutputFile(f string) error
Log_SetOutputFile(l, f) ==
    LET r == OpenFile(f) IN
    /\ MayCall(l, "SetOutputFile", f)
    /\ IF r.err # "nil"
       THEN /\ lastCall' = Call(l, "SetOutputFile", f, r.err)
            /\ UNCHANGED <<logs, opens>>
       ELSE /\ opens < MaxOpens
            /\ opens' = opens + 1
            /\ logs' = [logs EXCEPT ![l].output = r.w]
            /\ lastCall' = Call(l, "SetOutputFile", f, "nil")
    /\ calls' = calls + 1
    /\ UNCHANGED <<content, closed, clock, proc, caller>>

\* func (l *Log) SetTimestamp(f func() string)
Log_SetTimestamp(l, f) ==
    /\ MayCall(l, "SetTimestamp", f)
    /\ logs' = [logs EXCEPT ![l].timestamp = f]
    /\ lastCall' = Call(l, "SetTimestamp", f, "void")
    /\ calls' = calls + 1
    /\ UNCHANGED <<content, closed, opens, clock, proc, caller>>

----------------------------------------------------------------------------
(* Level-tagged writes: methods of *Log. *)

\* variant: only the empty mask filters
Filtered_OnlyByNone(l, L) == logs[l].logLevel = LevelNone

\* l.logLevel&L == 0
Filtered(l, L) == And(logs[l].logLevel, L) = LevelNone

\* variant: level tag and timestamp swapped
Entry_LevelFirst(ts, level, msg) ==
    Concat(<<level, <<TAB>>, ts, <<TAB>>, msg, <<NL>>>>)

\* the bytes of fmt.Fprintf(w, "%s\t%s\t%s\n", ts, level, msg)
Entry(ts, level, msg) == Concat(<<ts, <<TAB>>, level, <<TAB>>, msg, <<NL>>>>)

\* func (l *Log) writeEntry: the write it makes on l.output, one for each
\* answer the sink may give, with the error it returns
writeEntry(l, level, format, args) ==
    LET w == logs[l].output
        p == Entry(CallTimestamp(logs[l].timestamp), level, Sprintf(format, args))
    IN  {[sink |-> w, p |-> p, n |-> r.n, err |-> r.err] : r \in WriteOutcomes(w, p)}

\* return nil: the call of a filtered level
Skip(l, op, level, format, args) ==
    /\ lastCall' = [Call(l, op, [format |-> format, args |-> args], "nil")
                      EXCEPT !.level = level]
    /\ calls' = calls + 1
    /\ UNCHANGED <<logs, content, closed, opens, clock, proc, caller>>

\* the state after writeEntry made write e, the call handing ret to its
\* caller after fmtCalls calls of fmt.Sprintf
Wrote(l, op, level, format, args, e, ret, fmtCalls) ==
    /\ content' = [content EXCEPT ![e.sink] = @ \o SubSeq(e.p, 1, e.n)]
    /\ clock' = IF logs[l].timestamp = DefaultTimestamp THEN clock + 1 ELSE clock
    /\ lastCall' =
         [inst |-> l, op |-> op, arg |-> [format |-> format, args |-> args],
          enabled |-> TRUE, ret |-> ret, sink |-> e.sink, tsCalls |-> 1,
          fmtCalls |-> fmtCalls, writeCalls |-> 1, closeCalls |-> 0, level |-> level,
          p |-> e.p, n |-> e.n, err |-> e.err, pre |-> Pre, prev |-> Prev]
    /\ calls' = calls + 1
    /\ UNCHANGED <<logs, closed, opens, caller>>

\* func (l *Log) Debug(format string, args ...interface{}) error
Log_Debug(l, format, args) ==
    /\ MayCall(l, "Debug", <<>>)
    /\ IF Filtered(l, LevelDebug)
       THEN Skip(l, "Debug", S_DEBUG, format, args)
       ELSE \E e \in writeEntry(l, S_DEBUG, format, args) :
              /\ Wrote(l, "Debug", S_DEBUG, format, args, e, e.err, 1)
              /\ UNCHANGED proc

\* func (l *Log) Info(format string, args ...interface{}) error
Log_Info(l, format, args) ==
    /\ MayCall(l, "Info", <<>>)
    /\ IF Filtered(l, LevelInfo)
       THEN Skip(l, "Info", S_INFO, format, args)
       ELSE \E e \in writeEntry(l, S_INFO, format, args) :
              /\ Wrote(l, "Info", S_INFO, format, args, e, e.err, 1)
              /\ UNCHANGED proc

\* variant: the write error is swallowed
Log_Warning_DropsError(l, format, args) ==
    /\ MayCall(l, "Warning", <<>>)
    /\ IF Filtered(l, LevelWarning)
       THEN Skip(l, "Warning", S_WARNING, format, args)
       ELSE \E e \in writeEntry(l, S_WARNING, format, args) :
              /\ Wrote(l, "Warning", S_WARNING, format, args, e, "nil", 1)
              /\ UNCHANGED proc

\* func (l *Log) Warning(format string, args ...interface{}) error
Log_Warning(l, format, args) ==
    /\ MayCall(l, "Warning", <<>>)
    /\ IF Filtered(l, LevelWarning)
       THEN Skip(l, "Warning", S_WARNING, format, args)
       ELSE \E e \in writeEntry(l, S_WARNING, format, args) :
              /\ Wrote(l, "Warning", S_WARNING, format, args, e, e.err, 1)
              /\ UNCHANGED proc

\* func (l *Log) Error(format string, args ...interface{}) error
Log_Error(l, format, args) ==
    /\ MayCall(l, "Error", <<>>)
    /\ IF Filtered(l, LevelError)
       THEN Skip(l, "Error", S_ERROR, format, args)
       ELSE \E e \in writeEntry(l, S_ERROR, format, args) :
              /\ Wrote(l, "Error", S_ERROR, format, args, e, e.err, 1)
              /\ UNCHANGED proc

\* variant: a failed write is returned instead of exiting
Log_Fatal_ExitsOnSuccess(l, format, args) ==
    /\ MayCall(l, "Fatal", <<>>)
    /\ IF Filtered(l, LevelFatal)
       THEN Skip(l, "Fatal", S_FATAL, format, args)
       ELSE \E e \in writeEntry(l, S_FATAL, format, args) :
              IF e.err = "nil"
              THEN /\ Wrote(l, "Fatal", S_FATAL, format, args, e, "noreturn", 1)
                   /\ proc' = [proc EXCEPT !.state = "exited", !.code = 1]
              ELSE /\ Wrote(l, "Fatal", S_FATAL, format, args, e, e.err, 1)
                   /\ UNCHANGED proc

\* func (l *Log) Fatal(format string, args ...interface{}) error
Log_Fatal(l, format, args) ==
    /\ MayCall(l, "Fatal", <<>>)
    /\ IF Filtered(l, LevelFatal)
       THEN Skip(l, "Fatal", S_FATAL, format, args)
       ELSE \E e \in writeEntry(l, S_FATAL, format, args) :
              /\ Wrote(l, "Fatal", S_FATAL, format, args, e, "noreturn", 1)
              /\ proc' = [proc EXCEPT !.state = "exited", !.code = 1]

\* variant: the fault carries the format without its operands
Log_Panic_FormatAsPayload(l, format, args) ==
    /\ MayCall(l, "Panic", <<>>)
    /\ IF Filtered(l, LevelPanic)
       THEN Skip(l, "Panic", S_PANIC, format, args)
       ELSE \E e \in writeEntry(l, S_PANIC, format, args) :
              /\ Wrote(l, "Panic", S_PANIC, format, args, e, "noreturn", 1)
              /\ proc' = [state |-> "panicking", code |-> 0,
                          payload |-> Sprintf(format, <<>>), recovered |-> FALSE]

\* func (l *Log) Panic(format string, args ...interface{}) error
Log_Panic(l, format, args) ==
    /\ MayCall(l, "Panic", <<>>)
    /\ IF Filtered(l, LevelPanic)
       THEN Skip(l, "Panic", S_PANIC, format, args)
       ELSE \E e \in writeEntry(l, S_PANIC, format, args) :
              /\ Wrote(l, "Panic", S_PANIC, format, args, e, "noreturn", 2)
              /\ proc' = [state |-> "panicking", code |-> 0,
                          payload |-> Sprintf(format, args), recovered |-> FALSE]

\* func (l *Log) Custom(level string, format string, args ...interface{}) error
Log_Custom(l, level, format, args) ==
    /\ MayCall(l, "Custom", level)
    /\ IF Filtered(l, LevelCustom)
       THEN Skip(l, "Custom", level, format, args)
       ELSE \E e \in writeEntry(l, level, format, args) :
              /\ Wrote(l, "Custom", level, format, args, e, e.err, 1)
              /\ UNCHANGED proc

----------------------------------------------------------------------------
(* What the caller does besides calling the package: it empties its buffer *)
(* (buff.Truncate(0) in TestLog); and a panicking call either meets a      *)
(* deferred recover() of the caller, or none, and then the runtime ends    *)
(* the process with status 2.                                              *)

Truncate ==
    /\ MayCall(std, "Truncate", Buf)
    /\ caller = "TestLog"
    /\ content' = [content EXCEPT ![Buf] = <<>>]
    /\ lastCall' = Call(std, "Truncate", Buf, "void")
    /\ calls' = calls + 1
    /\ UNCHANGED <<logs, closed, opens, clock, proc, caller>>

Recover ==
    /\ proc.state = "panicking"
    /\ caller = "TestLog" => TestLog[calls + 1].op = "recover"
    /\ proc' = [proc EXCEPT !.state = "running", !.recovered = TRUE]
    /\ calls' = IF caller = "TestLog" THEN calls + 1 ELSE calls
    /\ UNCHANGED <<logs, content, closed, opens, clock, caller, lastCall>>

Crash ==
    /\ proc.state = "panicking"
    /\ caller = "any"
    /\ proc' = [proc EXCEPT !.state = "exited", !.code = 2]
    /\ UNCHANGED <<logs, content, closed, opens, clock, caller, calls, lastCall>>

----------------------------------------------------------------------------
(* The package-level functions: each passes to the shared instance std. *)

SetLogLevel(ll) == Log_SetLogLevel(std, ll)
SetOutput(w) == Log_SetOutput(std, w)
Close == Log_Close(std)
SetOutputFile(f) == Log_SetOutputFile(std, f)
SetTimestamp(f) == Log_SetTimestamp(std, f)
Debug(format, args) == Log_Debug(std, format, args)
Info(format, args) == Log_Info(std, format, args)
Warning(format, args) == Log_Warning(std, format, args)
Error(format, args) == Log_Error(std, format, args)
Fatal(format, args) == Log_Fatal(std, format, args)
Panic(format, args) == Log_Panic(std, format, args)
Custom(level, format, args) == Log_Custom(std, level, format, args)

Next ==
    \/ \E l \in Privs : NewLog(l)
    \/ \E ll \in Masks : SetLogLevel(ll)
    \/ \E w \in CallerSinks : SetOutput(w)
    \/ Close
    \/ \E f \in Paths : SetOutputFile(f)
    \/ \E f \in FixedTimestamps : SetTimestamp(f)
    \/ \E m \in Messages : Debug(m.format, m.args)
    \/ \E m \in Messages : Info(m.format, m.args)
    \/ \E m \in Messages : Warning(m.format, m.args)
    \/ \E m \in Messages : Error(m.format, m.args)
    \/ \E m \in Messages : Fatal(m.format, m.args)
    \/ \E m \in Messages : Panic(m.format, m.args)
    \/ \E t \in CustomTags, m \in Messages : Custom(t, m.format, m.args)
    \/ \E l \in Created, ll \in Masks : Log_SetLogLevel(l, ll)
    \/ \E l \in Created, w \in CallerSinks : Log_SetOutput(l, w)
    \/ \E l \in Created : Log_Close(l)
    \/ \E l \in Created, f \in Paths : Log_SetOutputFile(l, f)
    \/ \E l \in Created, f \in FixedTimestamps : Log_SetTimestamp(l, f)
    \/ \E l \in Created, m \in Messages : Log_Debug(l, m.format, m.args)
    \/ \E l \in Created, m \in Messages : Log_Info(l, m.format, m.args)
    \/ \E l \in Created, m \in Messages : Log_Warning(l, m.format, m.args)
    \/ \E l \in Created, m \in Messages : Log_Error(l, m.format, m.args)
    \/ \E l \in Created, m \in Messages : Log_Fatal(l, m.format, m.args)
    \/ \E l \in Created, m \in Messages : Log_Panic(l, m.format, m.args)
    \/ \E l \in Created, t \in CustomTags, m \in Messages :
         Log_Custom(l, t, m.format, m.args)
    \/ Truncate
    \/ Recover
    \/ Crash

Spec == Init /\ [][Next]_vars

----------------------------------------------------------------------------
(* Properties.  lastCall describes the most recent call: its log, its      *)
(* arguments, what it returned, what it did to the sink, and the state it  *)
(* started in (lastCall.pre).                                              *)

WriteOps == {"Debug", "Info", "Warning", "Error", "Fatal", "Panic", "Custom"}
ReturningOps == {"Debug", "Info", "Warning", "Error", "Custom"}
LibraryOps ==
    WriteOps \cup {"NewLog", "SetLogLevel", "SetOutput", "SetOutputFile",
                   "SetTimestamp", "Close"}

\* the level bit each write operation tests
LevelBit(op) ==
    CASE op = "Debug" -> {0}
      [] op = "Info" -> {1}
      [] op = "Warning" -> {2}
      [] op = "Error" -> {3}
      [] op = "Fatal" -> {4}
      [] op = "Panic" -> {5}
      [] op = "Custom" -> {6}

\* the tag each write operation prints; Custom prints its caller's
FixedTag(op) ==
    CASE op = "Debug" -> <<"D", "E", "B", "U", "G">>
      [] op = "Info" -> <<"I", "N", "F", "O">>
      [] op = "Warning" -> <<"W", "A", "R", "N", "I", "N", "G">>
      [] op = "Error" -> <<"E", "R", "R", "O", "R">>
      [] op = "Fatal" -> <<"F", "A", "T", "A", "L">>
      [] op = "Panic" -> <<"P", "A", "N", "I", "C">>
      [] op = "Custom" -> lastCall.level

IsWrite == lastCall.op \in WriteOps

\* the log of the call, as the call found it
PreLog == lastCall.pre.logs[lastCall.inst]

BitSet == (PreLog.logLevel \cap LevelBit(lastCall.op)) # {}

\* what the timestamp function installed when the call began returns
PreTimestamp ==
    IF PreLog.timestamp \in FixedTimestamps THEN <<"f", PreLog.timestamp>>
    ELSE Now(lastCall.pre.clock)

\* <timestamp> TAB <LEVEL-TAG> TAB <formatted message> NEWLINE
ExpectedLine ==
    PreTimestamp \o <<"\t">> \o FixedTag(lastCall.op) \o <<"\t">>
    \o Sprintf(lastCall.arg.format, lastCall.arg.args) \o <<"\n">>

\* every sink but w holds what it held when the call began
OthersUntouched(w) ==
    \A v \in Sinks \ {w} : content[v] = lastCall.pre.content[v]

NothingChanged ==
    /\ logs = lastCall.pre.logs
    /\ content = lastCall.pre.content
    /\ closed = lastCall.pre.closed
    /\ opens = lastCall.pre.opens
    /\ clock = lastCall.pre.clock

RECURSIVE Split(_, _)
\* the fields of s between the separators sep
Split(s, sep) ==
    IF s = <<>> THEN << <<>> >>
    ELSE LET rest == Split(Tail(s), sep)
         IN  IF Head(s) = sep THEN << <<>> >> \o rest
             ELSE << <<Head(s)>> \o Head(rest) >> \o Tail(rest)

\* the complete lines of s
LinesOf(s) == LET parts == Split(s, "\n") IN SubSeq(parts, 1, Len(parts) - 1)

\* how many complete lines of s carry the tag
CountTag(s, tag) ==
    Cardinality({i \in 1..Len(LinesOf(s)) :
                   LET f == Split(LinesOf(s)[i], "\t")
                   IN  Len(f) >= 2 /\ f[2] = tag})

(* C1: a level-tagged write whose level bit is clear in the mask returns   *)
(* no error and has no effect: no timestamp call, no formatting, no write, *)
(* no state change, and for Fatal and Panic no exit and no fault.          *)
C1_FilteredWriteHasNoEffect ==
    (IsWrite /\ ~BitSet) =>
        /\ lastCall.ret = "nil"
        /\ lastCall.tsCalls = 0
        /\ lastCall.fmtCalls = 0
        /\ lastCall.writeCalls = 0
        /\ lastCall.n = 0
        /\ NothingChanged
        /\ proc.state = "running"

C1_Witness ==
    /\ lastCall.op \in {"Fatal", "Panic"}
    /\ ~BitSet
    /\ PreLog.logLevel # LevelNone
    /\ lastCall.ret = "nil"

\* the run of TestLog up to its Custom call leaves one INFO, one ERROR and
\* one TEST line in the buffer and no DEBUG or FATAL line
TestLogOutput ==
    (caller = "TestLog" /\ calls = 8) =>
        /\ CountTag(content[Buf], <<"I", "N", "F", "O">>) = 1
        /\ CountTag(content[Buf], <<"E", "R", "R", "O", "R">>) = 1
        /\ CountTag(content[Buf], <<"T", "E", "S", "T">>) = 1
        /\ CountTag(content[Buf], <<"D", "E", "B", "U", "G">>) = 0
        /\ CountTag(content[Buf], <<"F", "A", "T", "A", "L">>) = 0
        /\ Len(LinesOf(content[Buf])) = 3

(* C2, as stated: an enabled write calls the timestamp function once and   *)
(* appends to the sink exactly one line                                    *)
(* <timestamp> TAB <LEVEL-TAG> TAB <message> NEWLINE; TestLog's run leaves *)
(* one INFO, one ERROR, one TEST line and no DEBUG or FATAL line.          *)
C2_Original_AlwaysAppendsOneLine ==
    /\ (IsWrite /\ BitSet) =>
          /\ lastCall.tsCalls = 1
          /\ content[lastCall.sink] = lastCall.pre.content[lastCall.sink] \o ExpectedLine
    /\ TestLogOutput

(* C2, amended: an enabled write calls the timestamp function once and     *)
(* makes one write of exactly that line on the sink; the sink gains the    *)
(* whole line when the write succeeds, and only the bytes it accepted (a   *)
(* proper prefix of the line, possibly none) when the write fails.         *)
C2_EnabledWriteWritesOneLine ==
    /\ (IsWrite /\ BitSet) =>
          /\ lastCall.enabled
          /\ lastCall.tsCalls = 1
          /\ lastCall.writeCalls = 1
          /\ lastCall.p = ExpectedLine
          /\ (lastCall.err = "nil") = (lastCall.n = Len(lastCall.p))
          /\ lastCall.n <= Len(lastCall.p)
          /\ content[lastCall.sink] =
               lastCall.pre.content[lastCall.sink] \o SubSeq(ExpectedLine, 1, lastCall.n)
    /\ TestLogOutput

C2_Witness ==
    /\ caller = "TestLog"
    /\ calls = 8
    /\ lastCall.op = "Custom"
    /\ lastCall.err = "nil"
    /\ content[Buf] # <<>>

(* C3: an enabled Fatal makes its write of the FATAL line and then ends    *)
(* the process with a failure status, whether the write succeeded or not;  *)
(* it does not return, and nothing runs after it.                          *)
C3_FatalAlwaysExits ==
    (lastCall.op = "Fatal" /\ BitSet) =>
        /\ lastCall.writeCalls = 1
        /\ lastCall.p = ExpectedLine
        /\ content[lastCall.sink] =
             lastCall.pre.content[lastCall.sink] \o SubSeq(lastCall.p, 1, lastCall.n)
        /\ proc.state = "exited"
        /\ proc.code = 1
        /\ lastCall.ret = "noreturn"
        /\ ~ENABLED Next

C3_Witness ==
    /\ lastCall.op = "Fatal"
    /\ BitSet
    /\ lastCall.err # "nil"
    /\ proc.state = "exited"

(* C4: an enabled Panic makes its write of the PANIC line and raises the   *)
(* fault whether or not the write succeeded; the payload is the formatted  *)
(* message of the line; the call does not return; the caller that recovers *)
(* finds the line of a successful write in the sink.                       *)
C4_PanicWritesThenFaults ==
    (lastCall.op = "Panic" /\ BitSet) =>
        /\ lastCall.writeCalls = 1
        /\ lastCall.p = ExpectedLine
        /\ lastCall.ret = "noreturn"
        /\ proc.payload = Sprintf(lastCall.arg.format, lastCall.arg.args)
        /\ Split(lastCall.p, "\t")[3] = proc.payload \o <<"\n">>
        /\ \/ proc.state = "panicking"
           \/ proc.state = "running" /\ proc.recovered
           \/ proc.state = "exited" /\ proc.code = 2
        /\ lastCall.err = "nil" =>
             content[lastCall.sink] = lastCall.pre.content[lastCall.sink] \o lastCall.p

C4_Witness ==
    /\ lastCall.op = "Panic"
    /\ BitSet
    /\ proc.state = "running"
    /\ proc.recovered
    /\ lastCall.err = "nil"
    /\ proc.payload = <<"w", "!">>

(* C5: SetOutputFile on a path that cannot be opened returns the open      *)
(* error and changes nothing, so the log keeps its sink, mask and          *)
(* timestamp function and its next write goes to the sink it had; only a   *)
(* successful open replaces the sink, by the newly opened file.            *)
C5_FailedOpenKeepsSink ==
    /\ lastCall.op = "SetOutputFile" =>
          IF lastCall.arg = "ok.log"
          THEN /\ lastCall.ret = "nil"
               /\ opens = lastCall.pre.opens + 1
               /\ logs = [lastCall.pre.logs EXCEPT
                            ![lastCall.inst].output = <<"file", opens>>]
               /\ content = lastCall.pre.content
               /\ closed = lastCall.pre.closed
          ELSE /\ lastCall.ret = "openerr"
               /\ NothingChanged
    /\ (IsWrite /\ lastCall.prev.op = "SetOutputFile"
          /\ lastCall.prev.inst = lastCall.inst /\ lastCall.enabled) =>
          /\ lastCall.sink = PreLog.output
          /\ OthersUntouched(PreLog.output)

C5_Witness ==
    /\ IsWrite
    /\ lastCall.enabled
    /\ lastCall.prev.op = "SetOutputFile"
    /\ lastCall.prev.inst = lastCall.inst
    /\ lastCall.sink = Buf
    /\ opens = 0
    /\ content[Buf] = lastCall.p

(* C6: Close calls the sink's close exactly when the sink has one, and     *)
(* returns its result; on a sink without close it returns no error and     *)
(* does nothing.  It leaves sink, mask and timestamp function of the log   *)
(* as they were: the next enabled write goes to the same sink, is appended *)
(* when that sink has no close, and gets the closed sink's error, nothing  *)
(* being written, when it has.                                             *)
C6_CloseKeepsConfiguration ==
    /\ lastCall.op = "Close" =>
          /\ logs = lastCall.pre.logs
          /\ content = lastCall.pre.content
          /\ opens = lastCall.pre.opens
          /\ IF PreLog.output[1] = "buf"
             THEN /\ lastCall.closeCalls = 0
                  /\ lastCall.ret = "nil"
                  /\ closed = lastCall.pre.closed
             ELSE /\ lastCall.closeCalls = 1
                  /\ lastCall.ret =
                       (IF lastCall.pre.closed[PreLog.output] THEN "closed" ELSE "nil")
                  /\ closed = [lastCall.pre.closed EXCEPT ![PreLog.output] = TRUE]
    /\ (IsWrite /\ lastCall.enabled /\ lastCall.prev.op = "Close"
          /\ lastCall.prev.inst = lastCall.inst) =>
          /\ lastCall.sink = PreLog.output
          /\ IF lastCall.sink[1] = "buf"
             THEN /\ lastCall.err = "nil"
                  /\ content[lastCall.sink] =
                       lastCall.pre.content[lastCall.sink] \o lastCall.p
             ELSE /\ lastCall.pre.closed[lastCall.sink]
                  /\ lastCall.err = "closed"
                  /\ content = lastCall.pre.content

C6_Witness ==
    /\ IsWrite
    /\ lastCall.enabled
    /\ lastCall.prev.op = "Close"
    /\ lastCall.prev.inst = lastCall.inst
    /\ lastCall.sink = Buf
    /\ content[Buf] = lastCall.p

(* C7: an enabled Debug, Info, Warning, Error or Custom returns exactly    *)
(* the error of the sink's write, no error when the write succeeded; it    *)
(* makes one write attempt and a failed write leaves the configuration     *)
(* as it was.                                                              *)
C7_ReturnsTheWriteError ==
    (lastCall.op \in ReturningOps /\ BitSet) =>
        /\ lastCall.ret = lastCall.err
        /\ (lastCall.ret = "nil") = (lastCall.n = Len(ExpectedLine))
        /\ lastCall.writeCalls = 1
        /\ logs = lastCall.pre.logs
        /\ closed = lastCall.pre.closed
        /\ opens = lastCall.pre.opens
        /\ proc.state = "running"

C7_Witness ==
    /\ lastCall.op = "Warning"
    /\ BitSet
    /\ lastCall.ret = "closed"
    /\ lastCall.n = 0

\* the bit positions b with LevelAll & (1 << b) != 0, and those of LevelNone
BitsOfLevelAll == {b \in 0..(LevelBits - 1) : And(LevelAll, Shl1(b)) # LevelNone}
BitsOfLevelNone == {b \in 0..(LevelBits - 1) : And(LevelNone, Shl1(b)) # LevelNone}

(* C8, as stated: every bit of the 64-bit mask is set in LevelAll, which   *)
(* is the default mask; LevelNone has no bit and nothing is written under  *)
(* it.                                                                     *)
C8_Original_AllBitsSet ==
    /\ BitsOfLevelAll = 0..(LevelBits - 1)
    /\ lastCall.op \in {"init", "NewLog"} => logs[lastCall.inst].logLevel = LevelAll
    /\ (IsWrite /\ PreLog.logLevel = LevelNone) => content = lastCall.pre.content

(* C8, amended: LevelAll is 0xFFFF: it has bits 0..15 set, the seven named *)
(* levels among them, and no bit from 16 up; it is the default mask of a   *)
(* new log; LevelNone has no bit set and no write produces output under it.*)
C8_LevelAllIsLow16Bits ==
    /\ BitsOfLevelAll = 0..15
    /\ \A op \in WriteOps : LevelBit(op) \subseteq BitsOfLevelAll
    /\ BitsOfLevelNone = {}
    /\ lastCall.op \in {"init", "NewLog"} => logs[lastCall.inst].logLevel = LevelAll
    /\ (IsWrite /\ PreLog.logLevel = LevelNone) =>
          /\ ~lastCall.enabled
          /\ lastCall.writeCalls = 0
          /\ content = lastCall.pre.content

C8_Witness ==
    /\ lastCall.op = "Custom"
    /\ PreLog.logLevel = LevelNone
    /\ lastCall.prev.op = "NewLog"
    /\ lastCall.inst # lastCall.prev.inst

(* C9: a call on one log, a package-level call on the shared log included, *)
(* leaves mask, sink and timestamp function of every other log unchanged   *)
(* and writes nothing to a sink that is not the sink of the log called.    *)
C9_LogsAreIndependent ==
    lastCall.op \in LibraryOps =>
        /\ \A k \in Insts \ {lastCall.inst} : logs[k] = lastCall.pre.logs[k]
        /\ OthersUntouched(lastCall.sink)
        /\ lastCall.op # "NewLog" => lastCall.sink = PreLog.output

C9_Witness ==
    /\ lastCall.op = "SetLogLevel"
    /\ lastCall.inst = std
    /\ logs["priv"] # NoLog
    /\ logs["priv"].logLevel # logs[std].logLevel
    /\ logs["priv"].logLevel = Or(LevelDebug, LevelError)

\* what each setter leaves in the log: its argument in the field it sets
SettersReplace ==
    /\ lastCall.op = "SetLogLevel" =>
          logs = [lastCall.pre.logs EXCEPT ![lastCall.inst].logLevel = lastCall.arg]
    /\ lastCall.op = "SetTimestamp" =>
          logs = [lastCall.pre.logs EXCEPT ![lastCall.inst].timestamp = lastCall.arg]
    /\ lastCall.op = "SetOutput" =>
          logs = [lastCall.pre.logs EXCEPT ![lastCall.inst].output = lastCall.arg]
    /\ (lastCall.op = "SetOutputFile" /\ lastCall.ret = "nil") =>
          logs = [lastCall.pre.logs EXCEPT ![lastCall.inst].output = <<"file", opens>>]
    /\ (lastCall.op = "SetOutputFile" /\ lastCall.ret # "nil") =>
          logs = lastCall.pre.logs
    /\ lastCall.op \in WriteOps \cup {"Close"} => logs = lastCall.pre.logs

\* a write is gated by the mask, stamped by the timestamp function and sent
\* to the sink that the log holds when the write is called
WritesUseCurrentSettings ==
    IsWrite =>
        /\ lastCall.enabled = BitSet
        /\ lastCall.sink = PreLog.output
        /\ OthersUntouched(PreLog.output)
        /\ lastCall.enabled =>
             SubSeq(lastCall.p, 1, Len(PreTimestamp) + 1) = PreTimestamp \o <<"\t">>
        /\ ~lastCall.enabled => content = lastCall.pre.content

(* C10, as stated: in a sequence of setter and write calls on a log, each  *)
(* write is gated by the mask of the latest SetLogLevel (which replaces    *)
(* the mask), begins with the string of the latest SetTimestamp's function *)
(* and goes only to the sink of the latest successful SetOutput or         *)
(* SetOutputFile; the content of a sink is the concatenation, in call      *)
(* order, of the lines of the enabled writes made while it was current.    *)
C10_Original_SinkHoldsEveryEnabledLine ==
    /\ SettersReplace
    /\ WritesUseCurrentSettings
    /\ (IsWrite /\ lastCall.enabled) =>
          content[lastCall.sink] = lastCall.pre.content[lastCall.sink] \o lastCall.p

(* C10, amended: the same, but the content of a sink is the concatenation, *)
(* in call order, of what the sink accepted of the lines of the enabled    *)
(* writes made while it was current: the whole line of every write that    *)
(* succeeded, and of a write that failed the bytes taken before the error. *)
C10_LatestSettingsGovernWrites ==
    /\ SettersReplace
    /\ WritesUseCurrentSettings
    /\ (IsWrite /\ lastCall.enabled) =>
          /\ content[lastCall.sink] =
               lastCall.pre.content[lastCall.sink] \o SubSeq(lastCall.p, 1, lastCall.n)
          /\ lastCall.err = "nil" => lastCall.n = Len(lastCall.p)
          /\ lastCall.err # "nil" => lastCall.n < Len(lastCall.p)

C10_Witness ==
    /\ lastCall.op = "Info"
    /\ lastCall.enabled
    /\ lastCall.prev.op = "SetTimestamp"
    /\ lastCall.pre.logs[lastCall.inst].timestamp = "B"
    /\ lastCall.sink = Buf
    /\ content[Buf] = <<"f", "B", "\t", "I", "N", "F", "O", "\t", "h", "i", "\n">>

====
